---- MODULE Spec2Model ----
(***************************************************************************)
(* A model of npc-engine-common/src/node.rs: the search-tree node           *)
(* (NodeInner), its construction, its read-only queries, its equality and   *)
(* hashing, and the strong / weak handles (Node, WeakNode) it is shared by. *)
(***************************************************************************)
EXTENDS Integers, Sequences, FiniteSets

(* ------------------------------------------------------------------ *)
(* Bounds of the model.                                                *)
(* ------------------------------------------------------------------ *)
MaxAgent == 1
MaxState == 1
MaxDiff == 1
MaxTask == 1
MaxStrong == 2
MaxWeak == 2

Agents == 0..MaxAgent
States == 0..MaxState
Diffs == 0..MaxDiff
Tasks == 0..MaxTask

VARIABLES
    domain,            \* the Domain implementation D the engine is built with
    debug_assertions,  \* whether the build keeps debug_assert! (cfg(debug_assertions))
    node,              \* Option<NodeInner<D>>: the node under study
    built,             \* Option of the arguments NodeInner::new was called with
    node2,             \* Option<NodeInner<D>>: a second node, compared with the first
    last,              \* the last operation: its arguments, outcome, result and Domain calls
    arc                \* the Arc<NodeInner<D>> allocation: strong and weak counts, payload

vars == <<domain, debug_assertions, node, built, node2, last, arc>>

(* ------------------------------------------------------------------ *)
(* Option<T>                                                           *)
(* ------------------------------------------------------------------ *)
None == [tag |-> "None"]
Some(x) == [tag |-> "Some", val |-> x]
IsSome(o) == o.tag = "Some"
IsNone(o) == o.tag = "None"

(* ------------------------------------------------------------------ *)
(* BTreeMap<K, V> and BTreeSet<K>: keys are kept and iterated in       *)
(* ascending order.                                                    *)
(* ------------------------------------------------------------------ *)
RECURSIVE BTreeSet_iter(_)
BTreeSet_iter(S) ==
    IF S = {} THEN <<>>
    ELSE LET m == CHOOSE x \in S : \A y \in S : x <= y
         IN <<m>> \o BTreeSet_iter(S \ {m})

BTreeMap_iter(m) ==
    LET ks == BTreeSet_iter(DOMAIN m)
    IN [i \in 1..Len(ks) |-> <<ks[i], m[ks[i]]>>]

BTreeMap_get(m, k) == IF k \in DOMAIN m THEN Some(m[k]) ELSE None

BTreeMap_remove(m, k) == [x \in (DOMAIN m) \ {k} |-> m[x]]

BTreeMap_len(m) == Cardinality(DOMAIN m)

\* collect() of (key, value) pairs into a map
BTreeMap_collect(pairs) ==
    [k \in {pairs[i][1] : i \in DOMAIN pairs} |->
        LET i == CHOOSE j \in DOMAIN pairs :
                     pairs[j][1] = k /\ \A l \in DOMAIN pairs : pairs[l][1] = k => l <= j
        IN pairs[i][2]]

\* PartialEq of two maps: same length, and the entries equal pairwise in order
BTreeMap_eq(m1, m2) ==
    /\ BTreeMap_len(m1) = BTreeMap_len(m2)
    /\ LET e1 == BTreeMap_iter(m1)
           e2 == BTreeMap_iter(m2)
       IN \A i \in 1..Len(e1) : e1[i][1] = e2[i][1] /\ e1[i][2] = e2[i][2]

\* every proposed task mapping: a task for any subset of the agents
TaskMaps == UNION {[S -> Tasks] : S \in SUBSET Agents}

(* ------------------------------------------------------------------ *)
(* StateDiffRef: a base state paired with a diff                       *)
(* ------------------------------------------------------------------ *)
StateDiffRef_new(initial_state, diff) ==
    [initial_state |-> initial_state, diff |-> diff]

(* ------------------------------------------------------------------ *)
(* The Domain and Task capabilities the node is generic over. A        *)
(* Domain is drawn from a family that differs in its visibility rule.  *)
(* ------------------------------------------------------------------ *)
VisibilityRules == {"flag", "others"}
Domains == [visibility : VisibilityRules]

\* "flag":   an agent sees itself, and every agent once the diff is set
\* "others": an agent sees every agent but itself (a defective Domain)
get_visible_agents(state_diff, agent) ==
    CASE domain.visibility = "flag" ->
            IF state_diff.diff # 0 THEN Agents ELSE {agent}
      [] domain.visibility = "others" -> Agents \ {agent}

\* the value of an agent reads the base state, the diff and the agent
get_current_value(state_diff, agent) ==
    100 * state_diff.initial_state + 10 * state_diff.diff + agent

\* a task is valid while the position it moves from is within its bounds
Task_is_valid(task, state_diff, agent) ==
    state_diff.initial_state + state_diff.diff + agent <= task + 1

\* one call into the Domain or into a Task, as a call-counting stub records it
Call(fn, state_diff, agent) ==
    [fn |-> fn, state_diff |-> state_diff, agent |-> agent]

(* ------------------------------------------------------------------ *)
(* NodeInner::new                                                      *)
(* ------------------------------------------------------------------ *)
\* the result of an operation: how it ended, what it returned, and the
\* Domain / Task calls it made, in order
Returned(ret, calls) == [outcome |-> "ok", ret |-> ret, calls |-> calls]
Panicked(calls) == [outcome |-> "panic", ret |-> None, calls |-> calls]

\* new_tasks, had it validated the entry of every agent
new_tasks_validate_all(initial_state, diff, active_agent, tasks) ==
    LET view == StateDiffRef_new(initial_state, diff)
        it == BTreeSet_iter(DOMAIN tasks)
    IN Returned(
         [a \in {x \in DOMAIN tasks : Task_is_valid(tasks[x], view, x)} |-> tasks[a]],
         [i \in 1..Len(it) |-> Call("is_valid", view, it[i])])

\* "Check validity of task for agent": the task mapping new keeps
new_tasks(initial_state, diff, active_agent, tasks) ==
    LET task == BTreeMap_get(tasks, active_agent)
    IN IF IsSome(task)
       THEN LET view == StateDiffRef_new(initial_state, diff)
            IN Returned(
                 IF ~Task_is_valid(task.val, view, active_agent)
                 THEN BTreeMap_remove(tasks, active_agent)
                 ELSE tasks,
                 <<Call("is_valid", view, active_agent)>>)
       ELSE Returned(tasks, <<>>)

\* new_current_values, had it read the base state without the diff
new_current_values_without_diff(initial_state, diff, agents) ==
    LET it == BTreeSet_iter(agents)
        view == StateDiffRef_new(initial_state, 0)
    IN Returned(
         BTreeMap_collect([i \in 1..Len(it) |-> <<it[i], get_current_value(view, it[i])>>]),
         [i \in 1..Len(it) |-> Call("get_current_value", view, it[i])])

\* "Set child current values": one get_current_value per visible agent
new_current_values(initial_state, diff, agents) ==
    LET it == BTreeSet_iter(agents)
        view == StateDiffRef_new(initial_state, diff)
    IN Returned(
         BTreeMap_collect([i \in 1..Len(it) |-> <<it[i], get_current_value(view, it[i])>>]),
         [i \in 1..Len(it) |-> Call("get_current_value", view, it[i])])

\* "Get observable agents"
new_agents(initial_state, diff, active_agent) ==
    LET view == StateDiffRef_new(initial_state, diff)
    IN Returned(get_visible_agents(view, active_agent),
                <<Call("get_visible_agents", view, active_agent)>>)

NodeInner_new(initial_state, diff, active_agent, tasks) ==
    LET checked == new_tasks(initial_state, diff, active_agent, tasks)
        agents == new_agents(initial_state, diff, active_agent)
    IN IF debug_assertions /\ active_agent \notin agents.ret
       THEN Panicked(checked.calls \o agents.calls)
       ELSE LET current_values == new_current_values(initial_state, diff, agents.ret)
            IN Returned(
                 [diff |-> diff,
                  active_agent |-> active_agent,
                  tasks |-> checked.ret,
                  current_values |-> current_values.ret],
                 checked.calls \o agents.calls \o current_values.calls)

(* ------------------------------------------------------------------ *)
(* The query operations of NodeInner                                   *)
(* ------------------------------------------------------------------ *)
NodeInner_agent(self) == Returned(self.active_agent, <<>>)

NodeInner_diff(self) == Returned(self.diff, <<>>)

NodeInner_state_diff_ref(self, initial_state) ==
    Returned(StateDiffRef_new(initial_state, self.diff), <<>>)

\* current_value, had it been unwrap_or_default() of the cache lookup
NodeInner_current_value_or_default(self, agent) ==
    LET cached == BTreeMap_get(self.current_values, agent)
    IN IF IsSome(cached) THEN Returned(cached.val, <<>>) ELSE Returned(0, <<>>)

\* "panic if not present in the node": unwrap() of the cache lookup
NodeInner_current_value(self, agent) ==
    LET cached == BTreeMap_get(self.current_values, agent)
    IN IF IsSome(cached) THEN Returned(cached.val, <<>>) ELSE Panicked(<<>>)

\* current_value_or_compute, had it been unwrap_or (its argument computed eagerly)
NodeInner_current_value_or_compute_eager(self, agent, initial_state) ==
    LET cached == BTreeMap_get(self.current_values, agent)
        view == StateDiffRef_new(initial_state, self.diff)
    IN Returned(IF IsSome(cached) THEN cached.val ELSE get_current_value(view, agent),
                <<Call("get_current_value", view, agent)>>)

\* "compute if not present in the node": unwrap_or_else of the cache lookup
NodeInner_current_value_or_compute(self, agent, initial_state) ==
    LET cached == BTreeMap_get(self.current_values, agent)
    IN IF IsSome(cached)
       THEN Returned(cached.val, <<>>)
       ELSE LET view == StateDiffRef_new(initial_state, self.diff)
            IN Returned(get_current_value(view, agent),
                        <<Call("get_current_value", view, agent)>>)

NodeInner_current_values(self) == Returned(self.current_values, <<>>)

\* "Returns the size in bytes", on a 64-bit target with a 4-byte Diff
size_of_Self == 56
size_of_entry == 8

RECURSIVE SumOver(_, _)
SumOver(f, S) ==
    IF S = {} THEN 0
    ELSE LET x == CHOOSE y \in S : TRUE IN f[x] + SumOver(f, S \ {x})

NodeInner_size(self, task_size) ==
    Returned(size_of_Self
               + BTreeMap_len(self.current_values) * size_of_entry
               + SumOver([a \in DOMAIN self.tasks |-> task_size[self.tasks[a]]],
                         DOMAIN self.tasks),
             <<>>)

\* the sizing functions a caller may pass
TaskSizes == {[t \in Tasks |-> 0], [t \in Tasks |-> 16 * (t + 1)]}

(* ------------------------------------------------------------------ *)
(* Hash and PartialEq of NodeInner                                     *)
(* ------------------------------------------------------------------ *)
\* a Hasher is the sequence of words written to it; finish folds them
Hasher_new == <<>>
Hasher_write(hasher, word) == Append(hasher, word)

RECURSIVE Hasher_fold(_, _)
Hasher_fold(h, words) ==
    IF words = <<>> THEN h
    ELSE Hasher_fold((31 * h + Head(words) + 1) % (2 ^ 16), Tail(words))

Hasher_finish(hasher) == Hasher_fold(7, hasher)

\* BTreeMap::hash: the length, then every key and value in key order
RECURSIVE Hasher_write_entries(_, _)
Hasher_write_entries(hasher, entries) ==
    IF entries = <<>> THEN hasher
    ELSE Hasher_write_entries(
           Hasher_write(Hasher_write(hasher, Head(entries)[1]), Head(entries)[2]),
           Tail(entries))

BTreeMap_hash(m, hasher) ==
    Hasher_write_entries(Hasher_write(hasher, BTreeMap_len(m)), BTreeMap_iter(m))

\* hash, had it fed the cached values too
NodeInner_hash_with_cache(self, hasher) ==
    LET h1 == Hasher_write(hasher, self.active_agent)
        h2 == Hasher_write(h1, self.diff)
    IN BTreeMap_hash(self.current_values, BTreeMap_hash(self.tasks, h2))

NodeInner_hash(self, hasher) ==
    LET h1 == Hasher_write(hasher, self.active_agent)
        h2 == Hasher_write(h1, self.diff)
    IN BTreeMap_hash(self.tasks, h2)

\* eq, had it compared the cached values too
NodeInner_eq_with_cache(self, other) ==
    /\ self.active_agent = other.active_agent
    /\ self.diff = other.diff
    /\ BTreeMap_eq(self.tasks, other.tasks)
    /\ BTreeMap_eq(self.current_values, other.current_values)

NodeInner_eq(self, other) ==
    /\ self.active_agent = other.active_agent
    /\ self.diff = other.diff
    /\ BTreeMap_eq(self.tasks, other.tasks)

(* ------------------------------------------------------------------ *)
(* The state machine                                                   *)
(* ------------------------------------------------------------------ *)
Last(op, args, r) ==
    [op |-> op, args |-> args, outcome |-> r.outcome, ret |-> r.ret, calls |-> r.calls]

\* a panic is fatal: nothing runs after it
Running == last.outcome = "ok"

Init ==
    /\ domain \in Domains
    /\ debug_assertions \in BOOLEAN
    /\ node = None
    /\ built = None
    /\ node2 = None
    /\ last = Last("init", <<>>, Returned(None, <<>>))
    /\ arc = [strong |-> 0, weak |-> 0, data |-> "uninit"]

Construct(initial_state, diff, active_agent, tasks) ==
    LET r == NodeInner_new(initial_state, diff, active_agent, tasks)
    IN /\ node' = IF r.outcome = "ok" THEN Some(r.ret) ELSE None
       /\ built' = Some([initial_state |-> initial_state, diff |-> diff,
                         active_agent |-> active_agent, tasks |-> tasks])
       /\ last' = Last("new", <<>>, [r EXCEPT !.ret = None])
       /\ UNCHANGED <<domain, debug_assertions, node2>>

\* the driver builds the node, on any base state, diff, agent and task proposal
New ==
    /\ Running
    /\ IsNone(node)
    /\ \E s \in States, d \in Diffs, a \in Agents, t \in TaskMaps : Construct(s, d, a, t)
    /\ UNCHANGED arc

Query(op, args, r) ==
    /\ Running
    /\ IsSome(node)
    /\ last' = Last(op, args, r)
    /\ UNCHANGED <<domain, debug_assertions, node, built, node2, arc>>

Agent == Query("agent", <<>>, NodeInner_agent(node.val))

Diff == Query("diff", <<>>, NodeInner_diff(node.val))

StateDiffRef(initial_state) ==
    Query("state_diff_ref", <<initial_state>>,
          NodeInner_state_diff_ref(node.val, initial_state))

CurrentValue(agent) ==
    Query("current_value", <<agent>>, NodeInner_current_value(node.val, agent))

\* current_value_or_compute, had it stored what it computes in the cache
CurrentValueOrCompute_memoizing(agent, initial_state) ==
    LET r == NodeInner_current_value_or_compute(node.val, agent, initial_state)
    IN /\ Running
       /\ IsSome(node)
       /\ last' = Last("current_value_or_compute", <<agent, initial_state>>, r)
       /\ node' = Some([node.val EXCEPT !.current_values =
                          [a \in DOMAIN node.val.current_values \cup {agent} |->
                             IF a = agent THEN r.ret ELSE node.val.current_values[a]]])
       /\ UNCHANGED <<domain, debug_assertions, built, node2, arc>>

CurrentValueOrCompute(agent, initial_state) ==
    Query("current_value_or_compute", <<agent, initial_state>>,
          NodeInner_current_value_or_compute(node.val, agent, initial_state))

CurrentValues == Query("current_values", <<>>, NodeInner_current_values(node.val))

Size(task_size) == Query("size", <<task_size>>, NodeInner_size(node.val, task_size))

\* the node hashed on its own, and compared with itself
HashSelf ==
    LET hasher == NodeInner_hash(node.val, Hasher_new)
    IN Query("hash", <<>>, Returned(Hasher_finish(hasher), hasher))

EqSelf == Query("eq", <<>>, Returned(NodeInner_eq(node.val, node.val), <<>>))

Next ==
    \/ New
    \/ Agent
    \/ Diff
    \/ \E s \in States : StateDiffRef(s)
    \/ \E a \in Agents : CurrentValue(a)
    \/ \E a \in Agents, s \in States : CurrentValueOrCompute(a, s)
    \/ CurrentValues
    \/ \E f \in TaskSizes : Size(f)
    \/ HashSelf
    \/ EqSelf

Spec == Init /\ [][Next]_vars

(* ------------------------------------------------------------------ *)
(* Two nodes, compared and hashed as a transposition table does. The   *)
(* second node is built from the task proposal of the first on any     *)
(* view and agent, or on the view and agent of the first from any task *)
(* proposal.                                                           *)
(* ------------------------------------------------------------------ *)
ConstructOther(initial_state, diff, active_agent, tasks) ==
    LET r == NodeInner_new(initial_state, diff, active_agent, tasks)
    IN /\ node2' = IF r.outcome = "ok" THEN Some(r.ret) ELSE None
       /\ last' = Last("new", <<initial_state, diff, active_agent, tasks>>,
                       [r EXCEPT !.ret = None])
       /\ UNCHANGED <<domain, debug_assertions, node, built, arc>>

NewOther ==
    /\ Running
    /\ IsSome(node)
    /\ IsNone(node2)
    /\ \/ \E s \in States, d \in Diffs, a \in Agents :
             ConstructOther(s, d, a, built.val.tasks)
       \/ \E t \in TaskMaps :
             ConstructOther(built.val.initial_state, built.val.diff,
                            built.val.active_agent, t)

Compare(op, r) ==
    /\ Running
    /\ IsSome(node)
    /\ IsSome(node2)
    /\ last' = Last(op, <<>>, r)
    /\ UNCHANGED <<domain, debug_assertions, node, built, node2, arc>>

Eq == Compare("eq", Returned(NodeInner_eq(node.val, node2.val), <<>>))

\* the hash of each node; the words fed to the hasher are kept as the calls
Hash ==
    LET h1 == NodeInner_hash(node.val, Hasher_new)
        h2 == NodeInner_hash(node2.val, Hasher_new)
    IN Compare("hash", Returned(<<Hasher_finish(h1), Hasher_finish(h2)>>, <<h1, h2>>))

NextEq ==
    \/ New
    \/ NewOther
    \/ Eq
    \/ Hash

SpecEq == Init /\ [][NextEq]_vars

(* ------------------------------------------------------------------ *)
(* Node<D> = Arc<NodeInner<D>> and WeakNode<D> = Weak<NodeInner<D>>:   *)
(* the strong and weak handles of one node, held by any number of      *)
(* threads. Every operation on the counts is atomic.                   *)
(* ------------------------------------------------------------------ *)
\* Arc::new: one strong handle, no weak handle, the payload alive
Arc_new_counts == [strong |-> 1, weak |-> 0, data |-> "live"]

\* Arc::clone
Arc_clone_counts(a) == [a EXCEPT !.strong = a.strong + 1]

\* Arc::drop: the payload is dropped with the last strong handle
Arc_drop_counts(a) ==
    IF a.strong = 1
    THEN [a EXCEPT !.strong = 0, !.data = "dropped"]
    ELSE [a EXCEPT !.strong = a.strong - 1]

\* Arc::downgrade and Weak::clone
Weak_new_counts(a) == [a EXCEPT !.weak = a.weak + 1]

\* Weak::drop
Weak_drop_counts(a) == [a EXCEPT !.weak = a.weak - 1]

\* upgrade, had it not checked the strong count
Weak_upgrade_counts_unchecked(a) == [a EXCEPT !.strong = a.strong + 1]

\* Weak::upgrade: a new strong handle unless no strong handle is left
Weak_upgrade_counts(a) ==
    IF a.strong = 0 THEN a ELSE [a EXCEPT !.strong = a.strong + 1]

Weak_upgrade_ret(a, payload) ==
    IF a.strong = 0 THEN None ELSE payload

\* Arc::new(NodeInner::new(..)): the driver wraps the node it builds
ArcNew ==
    /\ Running
    /\ arc.data = "uninit"
    /\ \E s \in States, d \in Diffs, a \in Agents, t \in TaskMaps : Construct(s, d, a, t)
    /\ arc' = IF IsSome(node') THEN Arc_new_counts ELSE arc

Handle(op, counts, ret) ==
    /\ Running
    /\ arc' = counts
    /\ node' = IF counts.data = "live" THEN node ELSE None
    /\ last' = Last(op, <<arc.strong, arc.weak>>, Returned(ret, <<>>))
    /\ UNCHANGED <<domain, debug_assertions, built, node2>>

ArcClone ==
    /\ arc.strong >= 1
    /\ arc.strong < MaxStrong
    /\ Handle("clone", Arc_clone_counts(arc), None)

ArcDrop ==
    /\ arc.strong >= 1
    /\ Handle("drop", Arc_drop_counts(arc), None)

ArcDowngrade ==
    /\ arc.strong >= 1
    /\ arc.weak < MaxWeak
    /\ Handle("downgrade", Weak_new_counts(arc), None)

WeakClone ==
    /\ arc.weak >= 1
    /\ arc.weak < MaxWeak
    /\ Handle("weak_clone", Weak_new_counts(arc), None)

WeakDrop ==
    /\ arc.weak >= 1
    /\ Handle("weak_drop", Weak_drop_counts(arc), None)

WeakUpgrade ==
    /\ arc.weak >= 1
    /\ arc.strong < MaxStrong
    /\ Handle("upgrade", Weak_upgrade_counts(arc), Weak_upgrade_ret(arc, node))

NextRc ==
    \/ ArcNew
    \/ ArcClone
    \/ ArcDrop
    \/ ArcDowngrade
    \/ WeakClone
    \/ WeakDrop
    \/ WeakUpgrade

SpecRc == Init /\ [][NextRc]_vars

(* ------------------------------------------------------------------ *)
(* Properties                                                          *)
(* ------------------------------------------------------------------ *)
\* the view NodeInner::new was called on
BuiltView == StateDiffRef_new(built.val.initial_state, built.val.diff)

\* the agents visible to the active agent when the node was built
BuiltVisible == get_visible_agents(BuiltView, built.val.active_agent)

\* C1: two nodes compare equal if and only if their active_agent, their diff
\* and their tasks are equal; current_values plays no part in it.
C1_EqIffIdentityFields ==
    last.op = "eq" =>
        (last.ret <=> /\ node.val.active_agent = node2.val.active_agent
                      /\ node.val.diff = node2.val.diff
                      /\ node.val.tasks = node2.val.tasks)

\* two nodes built on different base states: equal, with different cached values
C1_Witness ==
    /\ last.op = "eq"
    /\ last.ret
    /\ node.val.current_values # node2.val.current_values

\* C2: hashing feeds the hasher active_agent, then diff, then tasks (its
\* length, then each key and task in key order) and nothing else, and two
\* equal nodes hash to the same value whatever their current_values are.
C2_HashFeedsIdentityFields ==
    last.op = "hash" =>
        LET words == last.calls[1]
            keys == BTreeSet_iter(DOMAIN node.val.tasks)
        IN /\ Len(words) = 3 + 2 * Len(keys)
           /\ words[1] = node.val.active_agent
           /\ words[2] = node.val.diff
           /\ words[3] = Len(keys)
           /\ \A i \in 1..Len(keys) :
                 /\ words[2 + 2 * i] = keys[i]
                 /\ words[3 + 2 * i] = node.val.tasks[keys[i]]
           /\ (NodeInner_eq(node.val, node2.val) => last.ret[1] = last.ret[2])

\* two equal nodes with different cached values have been hashed
C2_Witness ==
    /\ last.op = "hash"
    /\ NodeInner_eq(node.val, node2.val)
    /\ node.val.current_values # node2.val.current_values
    /\ node.val.tasks # <<>>

\* C3: the active agent of every node NodeInner::new returns is a key of its
\* current_values, whatever the Domain's get_visible_agents returns.
C3_AgentInCurrentValues ==
    IsSome(node) => node.val.active_agent \in DOMAIN node.val.current_values

\* C4: the node keeps the proposed tasks, less the entry of the active agent
\* exactly when that entry exists and is not valid on the view of the
\* construction; no entry of another agent is validated, changed or removed.
C4_OnlyInvalidActiveTaskRemoved ==
    IsSome(node) =>
        LET b == built.val
            invalid == /\ b.active_agent \in DOMAIN b.tasks
                       /\ ~Task_is_valid(b.tasks[b.active_agent], BuiltView, b.active_agent)
        IN /\ DOMAIN node.val.tasks =
                 IF invalid THEN (DOMAIN b.tasks) \ {b.active_agent} ELSE DOMAIN b.tasks
           /\ \A a \in DOMAIN node.val.tasks : node.val.tasks[a] = b.tasks[a]
           /\ last.op = "new" =>
                 \A i \in DOMAIN last.calls :
                     last.calls[i].fn = "is_valid" =>
                         /\ last.calls[i].agent = b.active_agent
                         /\ last.calls[i].state_diff = BuiltView

\* the entry of the active agent was removed, and an entry of another agent
\* that is not valid on the same view was kept
C4_Witness ==
    /\ IsSome(node)
    /\ last.op = "new"
    /\ built.val.active_agent \in DOMAIN built.val.tasks
    /\ built.val.active_agent \notin DOMAIN node.val.tasks
    /\ \E a \in DOMAIN node.val.tasks :
          ~Task_is_valid(node.val.tasks[a], BuiltView, a)

\* C5: the keys of current_values are exactly the agents get_visible_agents
\* returns on the view of the construction, each mapped to get_current_value
\* on that same view, which is the base state with the diff the node keeps.
C5_CurrentValuesAreVisibleAgents ==
    IsSome(node) =>
        /\ node.val.diff = built.val.diff
        /\ DOMAIN node.val.current_values = BuiltVisible
        /\ \A a \in BuiltVisible :
              node.val.current_values[a] = get_current_value(BuiltView, a)
        /\ last.op = "new" =>
              \A i \in DOMAIN last.calls : last.calls[i].state_diff = BuiltView

\* a node of two visible agents, built on a base state and a diff that both count
C5_Witness ==
    /\ IsSome(node)
    /\ last.op = "new"
    /\ Cardinality(DOMAIN node.val.current_values) >= 2
    /\ built.val.diff # 0
    /\ built.val.initial_state # 0

\* C6: current_value_or_compute returns the cached value of a cached agent
\* without any call to the Domain, whatever base state it is given; for an
\* agent not cached it calls get_current_value once, on the given base state
\* with the diff of the node, and returns what that call returns.
C6_ComputeOnlyOnMiss ==
    last.op = "current_value_or_compute" =>
        LET agent == last.args[1]
            view == StateDiffRef_new(last.args[2], node.val.diff)
        IN /\ last.outcome = "ok"
           /\ IF agent \in DOMAIN node.val.current_values
              THEN /\ last.ret = node.val.current_values[agent]
                   /\ last.calls = <<>>
              ELSE /\ last.ret = get_current_value(view, agent)
                   /\ last.calls = <<Call("get_current_value", view, agent)>>

\* a cached agent was asked for with a base state other than the one of the
\* construction, on which the Domain would give another value
C6_Witness ==
    /\ last.op = "current_value_or_compute"
    /\ last.args[1] \in DOMAIN node.val.current_values
    /\ last.args[2] # built.val.initial_state
    /\ last.ret # get_current_value(StateDiffRef_new(last.args[2], node.val.diff),
                                    last.args[1])

\* C7: current_value returns the value memoized at construction for an agent
\* that was visible at construction, panics for any other agent, and never
\* calls the Domain.
C7_CurrentValueOrPanic ==
    last.op = "current_value" =>
        /\ last.calls = <<>>
        /\ IF last.args[1] \in BuiltVisible
           THEN /\ last.outcome = "ok"
                /\ last.ret = node.val.current_values[last.args[1]]
                /\ last.ret = get_current_value(BuiltView, last.args[1])
           ELSE /\ last.outcome = "panic"
                /\ last.ret = None

\* current_value was called for an agent that was not visible at construction
C7_Witness ==
    /\ last.op = "current_value"
    /\ last.args[1] \notin BuiltVisible
    /\ last.outcome = "panic"

\* C8: once built, the node never changes: no query operation (agent, diff,
\* state_diff_ref, current_value, current_value_or_compute, current_values,
\* size, eq, hash) changes its diff, active_agent, tasks or current_values,
\* and a miss of current_value_or_compute leaves current_values without the
\* agent.
C8_NodeImmutable ==
    [][IsSome(node) =>
         /\ IsSome(node')
         /\ node'.val.diff = node.val.diff
         /\ node'.val.active_agent = node.val.active_agent
         /\ node'.val.tasks = node.val.tasks
         /\ node'.val.current_values = node.val.current_values]_vars

\* current_value_or_compute missed the cache and computed a value, and the
\* agent is still not cached
C8_Witness ==
    /\ last.op = "current_value_or_compute"
    /\ last.calls # <<>>
    /\ last.args[1] \notin DOMAIN node.val.current_values

\* C9: an upgrade returns the node exactly when a strong handle exists at
\* that moment; the node is alive exactly while a strong handle exists, is
\* destroyed by the drop of the last one, and stays destroyed.
C9_UpgradeWhileStrong ==
    /\ [](last.op = "upgrade" => (IsSome(last.ret) <=> last.args[1] >= 1))
    /\ []((arc.data = "live" <=> arc.strong >= 1) /\ (IsSome(node) <=> arc.data = "live"))
    /\ [][(arc.data = "live" /\ arc'.data = "dropped")
             <=> (arc.strong = 1 /\ arc'.strong = 0)]_vars
    /\ [][arc.data = "dropped" => (arc'.data = "dropped" /\ arc'.strong = 0)]_vars

\* every strong handle has been dropped and an upgrade then returned nothing
C9_Witness ==
    /\ last.op = "upgrade"
    /\ IsNone(last.ret)
    /\ arc.data = "dropped"
    /\ arc.weak >= 1

\* C10: NodeInner::new panics at its assertion, and returns no node, when
\* get_visible_agents does not contain the active agent.
C10_PanicsWhenAgentNotVisible ==
    (last.op = "new" /\ built.val.active_agent \notin BuiltVisible) =>
        (last.outcome = "panic" /\ IsNone(node))

====
